---- MODULE Spec2Model ----
(***************************************************************************)
(* Model of the pgvector store of the RAG service                          *)
(* (stores/vectordb/providers/PGVectorProvider.py): collection lifecycle,  *)
(* inserts, threshold-driven index creation and the hybrid (dense +        *)
(* lexical) Reciprocal-Rank-Fusion search; and of the ingestion routes     *)
(* (routes/data.py) with the relational models and the DataController:     *)
(* upload (validation, path allocation, streamed write, Asset row) and     *)
(* processing (reset, chunk rows, report).                                 *)
(*                                                                         *)
(* A call's outcome is one of "True", "False", "None", "list" (what the    *)
(* method returns) or "raised" (an exception leaves the method).           *)
(***************************************************************************)
EXTENDS Integers, Sequences, FiniteSets, TLC

\* ------------------------------------------------------------------ bounds
MaxLen == 2        \* longest list handed to insert_many
MaxRows == 3       \* most rows the collections of the store model hold together
MaxTable == 3      \* most rows of a table the search is run on
MaxTopK == 3       \* largest top_k of a search

\* ------------------------------------------------------- program constants
index_threshold == 3          \* VECTOR_DB_PGVEC_INDEX_THRESHOLD (T)
default_batch_size == 50      \* insert_many(batch_size=50)
default_rrf_k == 60           \* search_by_vector(rrf_k=60)

Names == {"c1", "c2"}                 \* collection (table) names
EmbSizes == {1, 3}                    \* embedding sizes: below and above T
BatchSizes == {1, default_batch_size}
RrfKs == {1, default_rrf_k}
NoneVal == "None"

\* SupportedLanguages members, and the plain string that insert_many has as
\* its default (SupportedLanguages.ENGLISH.value)
ENGLISH == [kind |-> "enum", value |-> "english"]
ARABIC == [kind |-> "enum", value |-> "arabic"]
ENGLISH_value == [kind |-> "str", value |-> "english"]
Languages == {ENGLISH, ARABIC, ENGLISH_value}

\* a text is its sequence of tokens; a vector has two coordinates, none
\* negative and not both zero
Texts == {<<"a">>, <<"b">>, <<"a", "a">>}
Vecs == {<<1, 0>>, <<2, 1>>}
InsTexts == {<<"a">>}                 \* texts of the inserts of the store model
InsVecs == {<<1, 0>>}
\* DistanceMethodEnums: the values VECTOR_DB_DISTANCE_METHOD can take, and
\* the one the searches of SpecSearch are configured with
DistanceMethods == {"cosine", "dot"}
VECTOR_DB_DISTANCE_METHOD == "cosine"
InsIds == {1}                         \* chunk ids of those inserts
QueryTexts == {"a", "z"}              \* "z" matches no stored token

Min(a, b) == IF a < b THEN a ELSE b
Max(a, b) == IF a > b THEN a ELSE b
BoundedSeq(S, n) == UNION {[1..k -> S] : k \in 0..n}

\* the metadata argument: None, or a list of metadata items
Metadatas == {[none |-> TRUE, items |-> <<>>]} \cup
             {[none |-> FALSE, items |-> m] : m \in BoundedSeq({"m"}, MaxLen)}

VARIABLES
    collections,   \* set of names of the tables that exist (pg_tables)
    rows,          \* rows[c]: the rows of table c in id order
    indexes,       \* indexes[c]: subset of {"embed", "fts"} (pg_indexes)
    last,          \* the last call: its inputs, its outcome, its effect
    sres,          \* outcome of the last hybrid search run on the table
    projects,      \* project_id of the rows of table Project
    dirs,          \* project ids that have a directory under files_dir
    files,         \* files[path]: the request whose bytes the file holds
    assets,        \* rows of table Asset in asset_id order (by: the request
                   \*   that inserted the row)
    chunks,        \* rows of table DataChunk in the order of the heap
    reqs,          \* reqs[r]: position and locals of request r
    fname,         \* a file name and what sanitizing made of it
    chunk_seq,     \* last value of the sequence of DataChunk.chunk_id
    page,          \* a get_poject_chunks call and the walk over its pages
    rr             \* a rerank call: its inputs, the LLM's answer, its result

svars == <<collections, rows, indexes, last, sres>>
xvars == <<page, rr>>
dvars == <<projects, dirs, files, assets, chunks, reqs, fname, chunk_seq,
           xvars>>
vars == <<collections, rows, indexes, last, sres,
          projects, dirs, files, assets, chunks, reqs, fname, chunk_seq,
          page, rr>>

DB == [collections |-> collections, rows |-> rows, indexes |-> indexes]

\* last: op, name: the method and the collection it was called on;
\*   ret: its outcome; idx: what became of its index step ("skipped": not
\*   reached, "below": count < T, "failed": an index builder raised,
\*   "built"); existed, before: whether the collection existed and how many
\*   rows it had when the call was made; added: rows the call added; kept:
\*   the call left the set of collections as it was; pre: the stated
\*   precondition of insert_many held; nv = len(vectors); reset, emb, top_k:
\*   arguments; nres: length of a returned list; lang: the language
\*   argument of an insert; md: its metadata argument is None or has one
\*   item for each text
NoLang == [kind |-> "none", value |-> NoneVal]
NoCall == [op |-> "none", name |-> NoneVal, ret |-> NoneVal, added |-> 0,
           nv |-> 0, pre |-> TRUE, idx |-> "skipped", reset |-> FALSE,
           emb |-> 0, nres |-> 0, top_k |-> 0, existed |-> FALSE,
           before |-> 0, kept |-> TRUE, lang |-> NoLang, md |-> TRUE]
\* sres: docs: the RetrievedDocuments (with the id of their row); vres,
\*   kres: rank by row id of the two CTEs; score: score by candidate row id
\*   vector: the query vector; distance_method, ops: the distance method
\*   the provider was constructed with and its self.distance_method
NoSearch == [docs |-> <<>>, vres |-> <<>>, kres |-> <<>>, score |-> <<>>,
             top_k |-> 0, rrf_k |-> 0, n |-> 0, vector |-> <<>>,
             distance_method |-> NoneVal, ops |-> NoneVal]

\* ------------------------------------------------------------ the database
\* SELECT * FROM pg_tables WHERE tablename = :table_name
is_collection_existed_always(db, c) == TRUE     \* variant: the check passes
is_collection_existed(db, c) == c \in db.collections

\* SELECT 1 FROM pg_indexes WHERE tablename = .. AND indexname = ..
is_index_existed(db, c, indexing_method) == indexing_method \in db.indexes[c]

\* DROP TABLE IF EXISTS c: the table goes with its rows and its indexes
delete_collection_keep(db, c) == db              \* variant: nothing dropped
delete_collection(db, c) ==
    [collections |-> db.collections \ {c},
     rows |-> [db.rows EXCEPT ![c] = <<>>],
     indexes |-> [db.indexes EXCEPT ![c] = {}]]

\* CREATE TABLE IF NOT EXISTS c (...)
create_table_if_not_exists(db, c) ==
    IF c \in db.collections THEN db
    ELSE [collections |-> db.collections \cup {c},
          rows |-> [db.rows EXCEPT ![c] = <<>>],
          indexes |-> [db.indexes EXCEPT ![c] = {}]]

\* self.default_index_name is used by _create_embed_vector_index and
\* reset_vector_index; the provider defines only default_embed_index_name
\* and default_gin_index_name, so the attribute lookup raises.
default_index_name_defined == FALSE

\* _create_embed_vector_index: [raised, db]
create_embed_vector_index(db, c) ==
    IF is_index_existed(db, c, "embed") THEN [raised |-> FALSE, db |-> db]
    ELSE IF ~default_index_name_defined THEN [raised |-> TRUE, db |-> db]
    ELSE [raised |-> FALSE,
          db |-> [db EXCEPT !.indexes[c] = @ \cup {"embed"}]]

\* _create_gin_vector_index(self, collection_name) takes one argument
create_gin_vector_index_arity == 1
\* create_all_indexes: "below" when count < T (returns False), otherwise the
\* two index builders run; the GIN builder is called with two arguments
\* (collection_name, index_type), which raises TypeError.
create_all_indexes(db, c) ==
    LET count == Len(db.rows[c])
    IN  IF count < index_threshold THEN [idx |-> "below", db |-> db]
        ELSE LET e == create_embed_vector_index(db, c)
             IN  IF e.raised THEN [idx |-> "failed", db |-> e.db]
                 ELSE IF create_gin_vector_index_arity # 2
                      THEN [idx |-> "failed", db |-> e.db]
                      ELSE [idx |-> "built",
                            db |-> [e.db EXCEPT !.indexes[c] = @ \cup {"fts"}]]

\* ------------------------------------------------------------- insert_one
\* The INSERT names the column {language.value} and binds :language without
\* a value, and the language argument must have a .value: the statement is
\* never executed, whatever the collection, and the exception leaves the
\* method before the commit and before create_all_indexes.
insert_one(db, c, language) ==
    [ret |-> "raised", db |-> db, idx |-> "skipped"]

\* ------------------------------------------------------------ insert_many
\* range(0, len(texts), batch_size)
batch_starts(texts, batch_size) ==
    {i \in 0..(Len(texts) - 1) : i % batch_size = 0}
\* len(x[i:i+batch_size])
slice_len(x, i, batch_size) == Max(0, Min(batch_size, Len(x) - i))
\* number of tuples zip(...) yields for the batch starting at i
batch_len(texts, vectors, metadata, record_ids, i, batch_size) ==
    Min(Min(slice_len(texts, i, batch_size), slice_len(vectors, i, batch_size)),
        Min(slice_len(metadata, i, batch_size),
            slice_len(record_ids, i, batch_size)))

\* the transaction of insert_many: [raised, rows]; rows are the rows it
\* commits (none when it raises: one session.begin() block spans all batches)
insert_many_tx(db, c, texts, vectors, metadata, record_ids, batch_size, language) ==
    LET starts == batch_starts(texts, batch_size)
        blen(i) == batch_len(texts, vectors, metadata, record_ids, i, batch_size)
        \* 'language': language.value on a plain string raises AttributeError
        attr_error == language.kind = "str" /\ \E i \in starts : blen(i) > 0
        \* session.execute(sql, []) : no value for the bind parameters
        empty_batch == \E i \in starts : blen(i) = 0
        \* INSERT INTO a table that does not exist
        no_table == starts # {} /\ c \notin db.collections
        pos == {j \in 1..Len(texts) : \E i \in starts : i < j /\ j <= i + blen(i)}
        row(j) == [text |-> texts[j], vector |-> vectors[j],
                   chunk_id |-> record_ids[j], language |-> language.value]
    IN  IF attr_error \/ empty_batch \/ no_table
        THEN [raised |-> TRUE, rows |-> <<>>]
        ELSE [raised |-> FALSE, rows |-> [j \in 1..Cardinality(pos) |-> row(j)]]

\* C2's precondition of insert_many: the collection exists and the three
\* lists have one length
C2_Precondition(db, c, texts, vectors, record_ids) ==
    /\ c \in db.collections
    /\ Len(texts) = Len(vectors)
    /\ Len(vectors) = Len(record_ids)

insert_many(db, c, texts, vectors, metadata, record_ids, batch_size, language) ==
    IF ~is_collection_existed(db, c)
    THEN [ret |-> "False", db |-> db, idx |-> "skipped"]
    ELSE IF Len(vectors) # Len(record_ids)
    THEN [ret |-> "False", db |-> db, idx |-> "skipped"]
    ELSE
      \* if not metadata or len(metadata) == 0: metadata = [None] * len(texts)
      LET md == IF metadata.none \/ Len(metadata.items) = 0
                THEN [j \in 1..Len(texts) |-> NoneVal] ELSE metadata.items
          tx == insert_many_tx(db, c, texts, vectors, md, record_ids,
                               batch_size, language)
      IN  IF tx.raised THEN [ret |-> "raised", db |-> db, idx |-> "skipped"]
          ELSE LET db1 == [db EXCEPT !.rows[c] = @ \o tx.rows]
                   ix == IF c \in db1.collections
                         THEN create_all_indexes(db1, c)
                         ELSE [idx |-> "failed", db |-> db1]
               IN  IF ix.idx = "failed"
                   THEN [ret |-> "raised", db |-> ix.db, idx |-> ix.idx]
                   ELSE [ret |-> "True", db |-> ix.db, idx |-> ix.idx]

\* -------------------------------------------------------- create_collection
create_collection(db, c, embedding_size, do_reset) ==
    LET db1 == IF do_reset THEN delete_collection(db, c) ELSE db
        db2 == create_table_if_not_exists(db1, c)
    IN  IF embedding_size >= index_threshold
        THEN LET ix == create_all_indexes(db2, c)
             IN  [ret |-> IF ix.idx = "failed" THEN "raised" ELSE NoneVal,
                  db |-> ix.db, idx |-> ix.idx]
        ELSE [ret |-> NoneVal, db |-> db2, idx |-> "skipped"]

\* --------------------------------------------------------- reset_vector_index
\* its first statement evaluates self.default_index_name(collection_name)
reset_vector_index(db, c) ==
    IF ~default_index_name_defined
    THEN [ret |-> "raised", db |-> db, idx |-> "skipped"]
    ELSE LET db1 == [db EXCEPT !.indexes[c] = {}]
             ix == IF c \in db1.collections THEN create_all_indexes(db1, c)
                   ELSE [idx |-> "failed", db |-> db1]
         IN  [ret |-> CASE ix.idx = "failed" -> "raised"
                        [] ix.idx = "below" -> "False"
                        [] OTHER -> "True",
              db |-> ix.db, idx |-> ix.idx]

\* ------------------------------------------------------- search_by_vector
\* a score is the exact rational num/den
frac_add(a, b) == [num |-> a.num * b.den + b.num * a.den, den |-> a.den * b.den]
frac_le(a, b) == a.num * b.den <= b.num * a.den

\* PGVectorProvider.__init__: self.distance_method, the operator class the
\* configured distance method is mapped to
PgVectorDistanceMethod(distance_method) ==
    CASE distance_method = "cosine" -> "vector_cosine_ops"
      [] distance_method = "dot" -> "vector_l2_ops"
      [] OTHER -> distance_method

dot(a, b) == a[1] * b[1] + a[2] * b[2]
\* a <=> q < b <=> q. The SQL of the search spells the operator <=>, the
\* cosine distance 1 - a.q / (|a| |q|), whatever self.distance_method is;
\* with no negative coordinate a is nearer to q than b iff
\* (a.q)^2 |b|^2 > (b.q)^2 |a|^2
cosine_distance_lt(a, b, q) ==
    dot(a, q) * dot(a, q) * dot(b, b) > dot(b, q) * dot(b, q) * dot(a, a)
\* ts_rank_cd(fts_tokens, plainto_tsquery(:query)): occurrences of the term
ts_rank_cd(text, query) == Cardinality({j \in 1..Len(text) : text[j] = query})

\* ROW_NUMBER() OVER (ORDER BY key): the numberings 1..|S| of S that follow
\* the key (<<a, b>> \in lt: the key of a is less than that of b); rows with
\* equal keys are numbered in either order
row_number(S, lt) ==
    {r \in [S -> 1..Cardinality(S)] :
        /\ \A a, b \in S : a # b => r[a] # r[b]
        /\ \A a, b \in S : <<a, b>> \in lt => r[a] < r[b]}

\* SELECT id, ROW_NUMBER() OVER (...) AS rank FROM t LIMIT k: PostgreSQL's
\* window aggregate emits the rows in the order of its window, so the LIMIT
\* keeps the rows numbered 1..k
limit(S, r, k) == {i \in S : r[i] <= k}

\* COALESCE(1.0 / (:rrf_k + rank), 0.0)
\* variant: the reciprocal is left out
coalesce_inv_linear(present, rrf_k, rank) ==
    IF present THEN [num |-> rrf_k + rank, den |-> 1] ELSE [num |-> 0, den |-> 1]
coalesce_inv(present, rrf_k, rank) ==
    IF present THEN [num |-> 1, den |-> rrf_k + rank] ELSE [num |-> 0, den |-> 1]

\* the score column of the fused row i
\* variant: the lexical term is left out
rrf_score_dense_only(i, V, vr, K, kr, rrf_k) ==
    coalesce_inv(i \in V, rrf_k, IF i \in V THEN vr[i] ELSE 0)
rrf_score(i, V, vr, K, kr, rrf_k) ==
    frac_add(coalesce_inv(i \in V, rrf_k, IF i \in V THEN vr[i] ELSE 0),
             coalesce_inv(i \in K, rrf_k, IF i \in K THEN kr[i] ELSE 0))

\* ORDER BY score DESC LIMIT k over the candidates C: the id sequences the
\* final SELECT can return
\* variant: the final LIMIT is left out
order_by_score_desc_nolimit(C, score, k) ==
    LET m == Cardinality(C)
    IN  {s \in [1..m -> C] :
            /\ \A i, j \in 1..m : i # j => s[i] # s[j]
            /\ \A i, j \in 1..m : i < j => frac_le(score[s[j]], score[s[i]])}
order_by_score_desc_limit(C, score, k) ==
    LET m == Min(k, Cardinality(C))
    IN  {s \in [1..m -> C] :
            /\ \A i, j \in 1..m : i # j => s[i] # s[j]
            /\ \A i, j \in 1..m : i < j => frac_le(score[s[j]], score[s[i]])
            /\ \A x \in C : (\A i \in 1..m : s[i] # x) =>
                   \A i \in 1..m : frac_le(score[x], score[s[i]])}

\* FULL OUTER JOIN keeps the rows of either CTE
full_outer_join(V, K) == V \cup K

\* the search SQL on table tbl: the set of results it can produce
search_sql(tbl, query, vector, top_k, rrf_k) ==
    LET ids == 1..Len(tbl)
        \* ORDER BY vector <=> :vector
        d == {x \in ids \X ids :
                 cosine_distance_lt(tbl[x[1]].vector, tbl[x[2]].vector,
                                    vector)}
        M == {i \in ids : ts_rank_cd(tbl[i].text, query) > 0}
        \* ORDER BY ts_rank_cd(...) DESC
        lk == {x \in M \X M : ts_rank_cd(tbl[x[1]].text, query)
                                   > ts_rank_cd(tbl[x[2]].text, query)}
        fused(vr, V, kr, K) ==
            LET C == full_outer_join(V, K)
                score == [i \in C |-> rrf_score(i, V, vr, K, kr, rrf_k)]
            IN  {[docs |-> [j \in DOMAIN s |->
                              [id |-> s[j], text |-> tbl[s[j]].text,
                               score |-> score[s[j]]]],
                  vres |-> [i \in V |-> vr[i]],
                  kres |-> [i \in K |-> kr[i]],
                  score |-> score,
                  top_k |-> top_k, rrf_k |-> rrf_k, n |-> Len(tbl),
                  vector |-> vector, distance_method |-> NoneVal,
                  ops |-> NoneVal]
                 : s \in order_by_score_desc_limit(C, score, top_k)}
    IN  UNION {UNION {fused(vr, limit(ids, vr, top_k), kr, limit(M, kr, top_k))
            : kr \in row_number(M, lk)} : vr \in row_number(ids, d)}

\* search_by_vector: "False" for a missing collection, else a result list
search_by_vector(db, c, query, vector, top_k, rrf_k) ==
    IF ~is_collection_existed(db, c)
    THEN {[ret |-> "False", out |-> NoSearch]}
    ELSE IF c \notin db.collections      \* SELECT ... FROM a missing table
    THEN {[ret |-> "raised", out |-> NoSearch]}
    ELSE {[ret |-> "list", out |-> o] :
             o \in search_sql(db.rows[c], query, vector, top_k, rrf_k)}

\* ---------------------------------------------------- get_collection_info
\* The pg_tables row is fetched, then SELECT COUNT(*) FROM <collection_name>
\* is executed, and only then is "not table_info" tested: on a missing table
\* the COUNT statement raises before the None branch is reached.
get_collection_info(db, c) ==
    LET table_info == c \in db.collections
    IN  IF c \notin db.collections           \* COUNT(*) on a missing table
        THEN [ret |-> "raised", record_count |-> 0, hasindexes |-> FALSE]
        ELSE IF ~table_info
        THEN [ret |-> "None", record_count |-> 0, hasindexes |-> FALSE]
        ELSE [ret |-> "dict", record_count |-> Len(db.rows[c]),
              hasindexes |-> (db.indexes[c] # {})]

\* ============================================================== ingestion
\* configuration (helpers/config.py) and what a request can carry
FILE_MAX_SIZE == 1                         \* MB
EMBEDDING_MODEL_SIZE == 3
scale_mb == 1024 * 1024                    \* DataController.scale_mb
FILE_ALLOWED_TYPES == {"text/plain", "application/pdf"}
ContentTypes == FILE_ALLOWED_TYPES \cup {"image/png"}
FileSizes == {0, FILE_MAX_SIZE * scale_mb, FILE_MAX_SIZE * scale_mb + 1}
ProjectIds == {1, 2}
\* a file name is its sequence of characters: "a" is a word character, " "
\* is whitespace, "-" is neither a word character nor "."
Chars == {"a", "_", ".", " ", "-"}
WordChars == {"a", "_"}
Whitespace == {" "}
FileNames == {<<"a">>, <<" ", "a", "-">>}
UploadFiles == [content_type : ContentTypes, size : FileSizes,
                filename : FileNames]
\* outcomes of generate_random_string(12)
Suffixes == {"s1", "s2"}
Requests == {"r1", "r2"}

\* ResponseStatus (models/enums/ResponseEnums.py): the members and their
\* values
ResponseStatus ==
    [FILE_VALIDATED_SUCCESS |-> "file_validate_successfully",
     FILE_TYPE_NOT_SUPPORTED |-> "file_type_not_supported",
     FILE_SIZE_EXCEEDED |-> "file_size_exceeded",
     FILE_UPLOAD_SUCCESS |-> "file_upload_success",
     FILE_UPLOAD_FAILED |-> "file_upload_failed",
     FILE_PROCESSING_STARTED |-> "file_processing_started",
     FILE_PROCESSING_COMPLETED |-> "file_processing_completed",
     PROJECT_NOT_FOUND |-> "project_not_found",
     INDEXING_FAILED |-> "indexing_failed",
     INDEXING_COMPLETED |-> "indexing_completed",
     FETCHING_COLLECTION_INFO_FAILED |-> "fetching_collection_info_failed",
     FETCHING_COLLECTION_INFO_COMPLETED |->
         "fetching_collection_info_completed",
     SEARCH_FAILED |-> "search_failed",
     SEARCH_COMPLETED |-> "search_completed",
     ANSWER_GENERATION_FAILED |-> "answer_generation_failed",
     ANSWER_GENERATION_COMPLETED |-> "answer_generation_completed"]
\* JSONResponse(status_code, content={key: signal}) as the end of request
\* rec; the signal ResponseStatus.<member>.value of a name that is no member
\* of the enum raises AttributeError, and no response is built
JSONResponse(rec, status_code, key, signal) ==
    [rec EXCEPT !.pc = "done", !.signal = signal, !.key = key,
                !.status_code = status_code]
Raised(rec) == [rec EXCEPT !.pc = "done", !.signal = "raised"]
SignalResponse(rec, status_code, member) ==
    IF member \in DOMAIN ResponseStatus
    THEN JSONResponse(rec, status_code, "signal", ResponseStatus[member])
    ELSE Raised(rec)

\* DataController.validate_file: (is_valid, signal)
validate_file_ge(file) ==
    IF file.content_type \notin FILE_ALLOWED_TYPES
    THEN [is_valid |-> FALSE, signal |-> "file_type_not_supported"]
    ELSE IF file.size >= FILE_MAX_SIZE * scale_mb
    THEN [is_valid |-> FALSE, signal |-> "file_size_exceeded"]
    ELSE [is_valid |-> TRUE, signal |-> "file_validate_successfully"]
validate_file(file) ==
    IF file.content_type \notin FILE_ALLOWED_TYPES
    THEN [is_valid |-> FALSE, signal |-> "file_type_not_supported"]
    ELSE IF file.size > FILE_MAX_SIZE * scale_mb
    THEN [is_valid |-> FALSE, signal |-> "file_size_exceeded"]
    ELSE [is_valid |-> TRUE, signal |-> "file_validate_successfully"]

\* str.strip(): leading and trailing whitespace removed
RECURSIVE lstrip(_)
lstrip(x) ==
    IF x # <<>> /\ Head(x) \in Whitespace THEN lstrip(Tail(x)) ELSE x
RECURSIVE rstrip(_)
rstrip(x) ==
    IF x # <<>> /\ x[Len(x)] \in Whitespace
    THEN rstrip(SubSeq(x, 1, Len(x) - 1)) ELSE x
strip(x) == rstrip(lstrip(x))
\* re.sub(r'[^\w.]', '', x): every character that is neither a word character
\* nor "." is removed
IsKept(ch) == ch \in WordChars \cup {"."}
RECURSIVE re_sub_first(_)
re_sub_first(x) ==
    IF x = <<>> THEN <<>>
    ELSE IF IsKept(Head(x)) THEN <<Head(x)>> \o re_sub_first(Tail(x))
    ELSE Tail(x)
re_sub(x) == SelectSeq(x, IsKept)
\* x.replace(" ", "_")
replace_space(x) == [i \in DOMAIN x |-> IF x[i] = " " THEN "_" ELSE x[i]]
\* DataController.get_clean_file_name
get_clean_file_name(orig_file_name) ==
    replace_space(re_sub(strip(orig_file_name)))

\* os.path.join(project_path, f"{random_suffix}_{clean_file_name}"): the
\* directory of the project and the stored name
file_path(project_id, random_suffix, clean_file_name) ==
    [project |-> project_id,
     name |-> <<random_suffix, "_">> \o clean_file_name]
\* DataController.generate_unique_file_path: a suffix is drawn, and drawn
\* again while a file of that path exists; the paths the loop can end with
generate_unique_file_path(disk, project_id, file_name) ==
    {path \in {file_path(project_id, sfx, get_clean_file_name(file_name)) :
                  sfx \in Suffixes} : path \notin DOMAIN disk}

\* relation Project: project_id identifies the row
project_id_is_key == TRUE
SeqRange(q) == {q[i] : i \in DOMAIN q}
\* ProjectModel.create_project: INSERT of a row with the given project_id
create_project(table, project_id) ==
    IF project_id_is_key /\ project_id \in SeqRange(table)
    THEN [raised |-> TRUE, table |-> table]
    ELSE [raised |-> FALSE, table |-> Append(table, project_id)]
\* relation Asset: (asset_project_id, asset_name) is unique
asset_name_is_unique == TRUE
\* AssetModel.create_asset
create_asset(table, asset) ==
    IF asset_name_is_unique
       /\ \E a \in SeqRange(table) :
              /\ a.asset_project_id = asset.asset_project_id
              /\ a.asset_name = asset.asset_name
    THEN [raised |-> TRUE, table |-> table]
    ELSE [raised |-> FALSE, table |-> Append(table, asset)]

\* NLPController.create_collection_name: a pure function of the project id
create_collection_name(project_id) == IF project_id = 1 THEN "c1" ELSE "c2"

\* AssetModel.get_asset_record: scalar_one_or_none of the rows of that name
\* in the project; ids: the asset_id of the rows found
get_asset_record(table, asset_project_id, asset_name) ==
    LET ids == {i \in DOMAIN table :
                   /\ table[i].asset_project_id = asset_project_id
                   /\ table[i].asset_name = asset_name}
    IN  [raised |-> Cardinality(ids) > 1, ids |-> ids]
\* AssetModel.get_all_project_assets: asset_id of the rows of the project
get_all_project_assets(table, asset_project_id) ==
    {i \in DOMAIN table : table[i].asset_project_id = asset_project_id}
\* the dict {asset_id: asset_name} as the list of its keys in insertion order
RECURSIVE SortedIds(_)
SortedIds(S) ==
    IF S = {} THEN <<>>
    ELSE LET m == CHOOSE x \in S : \A y \in S : x <= y
         IN  <<m>> \o SortedIds(S \ {m})

\* ChunkDataModel.delete_chunks_by_project_id: the table left, and rowcount
DeletedRows(table, project_id) ==
    {i \in DOMAIN table : table[i].chunk_project_id = project_id}
KeepOther(table, project_id) ==
    LET F[i \in 0..Len(table)] ==
            IF i = 0 THEN <<>>
            ELSE IF table[i].chunk_project_id = project_id THEN F[i - 1]
            ELSE Append(F[i - 1], table[i])
    IN  F[Len(table)]
delete_chunks_uncommitted(table, project_id) ==
    [table |-> table,
     rowcount |-> Cardinality(DeletedRows(table, project_id))]
delete_chunks_by_project_id(table, project_id) ==
    [table |-> KeepOther(table, project_id),
     rowcount |-> Cardinality(DeletedRows(table, project_id))]

\* ChunkDataModel.get_total_chunks_count
get_total_chunks_count(table, project_id) ==
    Cardinality({i \in DOMAIN table :
                    table[i].chunk_project_id = project_id})

\* process_file_content gives file_chunks, the list of the chunks of a file;
\* a chunk is named by its page_content, here its place in the file
FileChunks(n) == [i \in 1..n |-> i]
\* the DataChunk records built for a file: enumerate(file_chunks), i + 1
chunk_records_zero_based(file_chunks, asset_id, project_id) ==
    [k \in DOMAIN file_chunks |->
        [chunk_text |-> file_chunks[k], chunk_asset_id |-> asset_id,
         chunk_project_id |-> project_id, chunk_order |-> k - 1]]
chunk_records(file_chunks, asset_id, project_id) ==
    [k \in DOMAIN file_chunks |->
        [chunk_text |-> file_chunks[k], chunk_asset_id |-> asset_id,
         chunk_project_id |-> project_id, chunk_order |-> (k - 1) + 1]]
\* ChunkDataModel.insert_many_chunks: add_all of each batch puts the
\* records in the session; the commit inserts them in that order, each with
\* the next value of the chunk_id sequence; returns len(chunks)
chunk_batch_size == 100
RECURSIVE add_batches(_, _, _)
add_batches(session, records, i) ==
    IF i > Len(records) THEN session
    ELSE add_batches(
             session \o SubSeq(records, i,
                               Min(i + chunk_batch_size - 1, Len(records))),
             records, i + chunk_batch_size)
insert_many_chunks(table, seq, records) ==
    LET session == add_batches(<<>>, records, 1)
        new == [k \in DOMAIN session |->
                   [chunk_id |-> seq + k,
                    chunk_text |-> session[k].chunk_text,
                    chunk_asset_id |-> session[k].chunk_asset_id,
                    chunk_project_id |-> session[k].chunk_project_id,
                    chunk_order |-> session[k].chunk_order]]
    IN  [table |-> table \o new, seq |-> seq + Len(session),
         ret |-> Len(records)]

NoFile == [content_type |-> "", size |-> 0, filename |-> <<>>]
NoPath == [project |-> 0, name |-> <<>>]
\* a request: pc: where it stands; project, file: what it carries; path: the
\*   path allocated to it; signal: what it answered ("raised": an exception
\*   left the handler), key: the key of the content that holds it,
\*   status_code: the HTTP status of the response; wrote: it changed a table
\*   or the disk; clobbered: it opened for writing a file that was on disk
NoReq == [pc |-> "idle", project |-> 0, file |-> NoFile, path |-> NoPath,
          signal |-> NoneVal, key |-> NoneVal, status_code |-> 0,
          wrote |-> FALSE, clobbered |-> FALSE]
NoName == [orig |-> <<>>, out |-> <<>>]
\* ChunkDataModel.get_poject_chunks: SELECT ... WHERE chunk_project_id =
\* :project_id OFFSET (page_no - 1) * page_size LIMIT page_size. The
\* statement has no ORDER BY: the rows come in the order of the heap.
default_page_size == 50                    \* get_poject_chunks(page_size=50)
PageSizes == {1, 2, default_page_size}
project_chunks(table, project_id) ==
    LET F[i \in 0..Len(table)] ==
            IF i = 0 THEN <<>>
            ELSE IF table[i].chunk_project_id = project_id
                 THEN Append(F[i - 1], table[i])
                 ELSE F[i - 1]
    IN  F[Len(table)]
get_poject_chunks(table, project_id, page_no, page_size) ==
    LET records == project_chunks(table, project_id)
        offset == (page_no - 1) * page_size
    IN  SubSeq(records, offset + 1, Min(offset + page_size, Len(records)))
\* chunk.chunk_id of each chunk of a list
chunk_ids_of(records) == [k \in DOMAIN records |-> records[k].chunk_id]

\* page: a walk over the pages of a project: page_no, out: the page fetched
\*   last and the chunk ids it held; seen: the chunk ids of all pages
\*   fetched; done: the last page was empty
NoPage == [op |-> "none", project |-> 0, page_size |-> 0, page_no |-> 0,
           out |-> <<>>, seen |-> <<>>, done |-> FALSE]

\* ================================================================== rerank
\* GEMINIProvider.rerank(query, documents, top_n)
MaxDocs == 2       \* most candidate documents handed to rerank
MaxIds == 2        \* most IDs in the JSON array of a response
default_top_n == 10                        \* rerank(top_n=10)
TopNs == {1, default_top_n}
\* the candidates: a document is named by its place in the list (from 1)
Documents == {[i \in 1..n |-> i] : n \in 0..MaxDocs}
\* the IDs a response can name: places from 0, and numbers out of range on
\* either side
Ids == (0 - (MaxDocs + 1))..MaxDocs
\* response.text: what stands before and after its body (sequences of the
\* tokens "fence_json" and "fence" (a code fence with and without the word
\* json), " " and the word "a"), and the body: a JSON array of integers, or a
\* JSON number
Bodies == {[array |-> TRUE, ids |-> x] : x \in BoundedSeq(Ids, MaxIds)} \cup
          {[array |-> FALSE, ids |-> <<>>]}
ResponseTexts ==
    {[pre |-> w[1], body |-> b, post |-> w[2]] :
        w \in {<< <<>>, <<>> >>,
               << <<"fence_json", " ">>, <<" ", "fence", " ">> >>,
               << <<"a", " ">>, <<>> >>},
        b \in Bodies}
\* the LLM call raises, or gives a response
Responses == {[raises |-> TRUE, text |-> [pre |-> <<>>, post |-> <<>>,
                                          body |-> [array |-> FALSE,
                                                    ids |-> <<>>]]]} \cup
             {[raises |-> FALSE, text |-> t] : t \in ResponseTexts}

\* documents[:top_n]
Slice(x, n) == SubSeq(x, 1, Min(n, Len(x)))
\* response.text.strip(): the body is not whitespace
strip_text(text) ==
    [pre |-> lstrip(text.pre), body |-> text.body, post |-> rstrip(text.post)]
\* .replace(fence_json, "").replace(fence, "")
IsNoFence(tok) == tok \notin {"fence_json", "fence"}
replace_fences(text) ==
    [pre |-> SelectSeq(text.pre, IsNoFence), body |-> text.body,
     post |-> SelectSeq(text.post, IsNoFence)]
\* json.loads: whitespace around the one JSON value is allowed, anything
\* else raises JSONDecodeError
IsWhitespace(tok) == tok \in Whitespace
json_loads(text) ==
    IF SelectSeq(text.pre, IsWhitespace) = text.pre
       /\ SelectSeq(text.post, IsWhitespace) = text.post
    THEN [raised |-> FALSE, value |-> text.body]
    ELSE [raised |-> TRUE, value |-> text.body]
\* documents[i] of Python: from the end for a negative i, IndexError out of
\* -len..len-1; here the place (from 1) it names, 0 for IndexError
py_index(n, i) ==
    IF 0 <= i /\ i < n THEN i + 1
    ELSE IF i < 0 /\ 0 - n <= i THEN n + i + 1
    ELSE 0
\* [documents[i] for i in relevant_indices if i < len(documents)]
RECURSIVE map_indices(_, _)
map_indices(documents, ids) ==
    IF ids = <<>> THEN [raised |-> FALSE, out |-> <<>>]
    ELSE LET i == Head(ids)
             rest == map_indices(documents, Tail(ids))
         IN  IF ~(i < Len(documents)) THEN rest
             ELSE IF py_index(Len(documents), i) = 0
             THEN [raised |-> TRUE, out |-> <<>>]
             ELSE [raised |-> rest.raised,
                   out |-> <<documents[py_index(Len(documents), i)]>>
                              \o rest.out]
\* rerank: out: the list returned; path: "empty" (no documents), "mapped"
\* (the return of the try block) or "fallback" (the except block); parsed:
\* what json.loads gave ("none": not reached, "error", "array", "value")
rerank(documents, top_n, response) ==
    LET fallback(parsed) == [out |-> Slice(documents, top_n),
                             path |-> "fallback", parsed |-> parsed]
        cleaned_response == replace_fences(strip_text(response.text))
        relevant_indices == json_loads(cleaned_response)
        m == map_indices(documents, relevant_indices.value.ids)
    IN  IF documents = <<>>
        THEN [out |-> <<>>, path |-> "empty", parsed |-> "none"]
        ELSE IF response.raises THEN fallback("none")
        ELSE IF relevant_indices.raised THEN fallback("error")
        \* iterating a number raises TypeError
        ELSE IF ~relevant_indices.value.array THEN fallback("value")
        ELSE IF m.raised THEN fallback("array")
        ELSE [out |-> m.out, path |-> "mapped", parsed |-> "array"]

\* rr: documents, top_n, response: the inputs and the LLM's answer; out,
\*   path, parsed: what rerank made of them
NoRerank == [op |-> "none", documents |-> <<>>, top_n |-> 0,
             response |-> [raises |-> FALSE,
                           text |-> [pre |-> <<>>, post |-> <<>>,
                                     body |-> [array |-> FALSE,
                                               ids |-> <<>>]]],
             out |-> <<>>, path |-> NoneVal, parsed |-> NoneVal]

DataIdle ==
    /\ projects = <<>>
    /\ dirs = {}
    /\ files = <<>>
    /\ assets = <<>>
    /\ chunks = <<>>
    /\ reqs = [r \in Requests |-> NoReq]
    /\ fname = NoName
    /\ chunk_seq = 0
    /\ page = NoPage
    /\ rr = NoRerank

\* ================================================================ the store
Init ==
    /\ collections = {}
    /\ rows = [c \in Names |-> <<>>]
    /\ indexes = [c \in Names |-> {}]
    /\ last = NoCall
    /\ sres = NoSearch
    /\ DataIdle

RECURSIVE SumRows(_, _)
SumRows(db, S) ==
    IF S = {} THEN 0
    ELSE LET c == CHOOSE x \in S : TRUE
         IN  Len(db.rows[c]) + SumRows(db, S \ {c})
TotalRows(db) == SumRows(db, Names)

SetDB(db) ==
    /\ collections' = db.collections
    /\ rows' = db.rows
    /\ indexes' = db.indexes

\* the record of a call of op on c that returned ret and left the store db
Called(op, c, ret, idx, db) ==
    [NoCall EXCEPT !.op = op, !.name = c, !.ret = ret, !.idx = idx,
                   !.existed = (c \in collections),
                   !.before = Len(rows[c]),
                   !.added = Len(db.rows[c]) - Len(rows[c]),
                   !.kept = (db.collections = collections)]

CreateCollection(c, embedding_size, do_reset) ==
    LET r == create_collection(DB, c, embedding_size, do_reset)
    IN  /\ last = NoCall
        /\ SetDB(r.db)
        /\ last' = [Called("create_collection", c, r.ret, r.idx, r.db)
                       EXCEPT !.reset = do_reset, !.emb = embedding_size]
        /\ UNCHANGED <<sres, dvars>>

DeleteCollection(c) ==
    /\ last = NoCall
    /\ SetDB(delete_collection(DB, c))
    /\ last' = Called("delete_collection", c, "True", "skipped",
                       delete_collection(DB, c))
    /\ UNCHANGED <<sres, dvars>>

InsertOne(c, language) ==
    LET r == insert_one(DB, c, language)
    IN  /\ last = NoCall
        /\ SetDB(r.db)
        /\ last' = [Called("insert_one", c, r.ret, r.idx, r.db)
                       EXCEPT !.nv = 1, !.pre = (c \in collections),
                              !.lang = language]
        /\ UNCHANGED <<sres, dvars>>

InsertMany(c, texts, vectors, metadata, record_ids, batch_size, language) ==
    LET r == insert_many(DB, c, texts, vectors, metadata, record_ids,
                         batch_size, language)
    IN  /\ last = NoCall
        /\ TotalRows(r.db) <= MaxRows
        /\ SetDB(r.db)
        /\ last' = [Called("insert_many", c, r.ret, r.idx, r.db)
                       EXCEPT !.nv = Len(vectors),
                              !.pre = C2_Precondition(DB, c, texts,
                                                          vectors, record_ids),
                              !.lang = language,
                              !.md = (metadata.none
                                      \/ Len(metadata.items)
                                             \in {0, Len(texts)})]
        /\ UNCHANGED <<sres, dvars>>

ResetVectorIndex(c) ==
    LET r == reset_vector_index(DB, c)
    IN  /\ last = NoCall
        /\ SetDB(r.db)
        /\ last' = Called("reset_vector_index", c, r.ret, r.idx, r.db)
        /\ UNCHANGED <<sres, dvars>>

\* the store model keeps the size of the result only
SearchByVector(c, query, vector, top_k, rrf_k) ==
    /\ last = NoCall
    /\ \E r \in search_by_vector(DB, c, query, vector, top_k, rrf_k) :
        /\ last' = [Called("search_by_vector", c, r.ret, "skipped", DB)
                       EXCEPT !.nres = Len(r.out.docs), !.top_k = top_k]
        /\ UNCHANGED <<collections, rows, indexes, sres, dvars>>

\* nres holds the record_count of the returned dict
GetCollectionInfo(c) ==
    LET r == get_collection_info(DB, c)
    IN  /\ last = NoCall
        /\ last' = [Called("get_collection_info", c, r.ret, "skipped", DB)
                       EXCEPT !.nres = r.record_count]
        /\ UNCHANGED <<collections, rows, indexes, sres, dvars>>

\* the call has returned to its caller
EndCall ==
    /\ last # NoCall
    /\ last' = NoCall
    /\ UNCHANGED <<collections, rows, indexes, sres, dvars>>

Next ==
    \/ \E c \in Names, e \in EmbSizes, b \in BOOLEAN : CreateCollection(c, e, b)
    \/ \E c \in Names : DeleteCollection(c)
    \/ \E c \in Names, l \in Languages : InsertOne(c, l)
    \/ \E c \in Names, record_ids \in BoundedSeq(InsIds, MaxLen),
          texts \in BoundedSeq(InsTexts, MaxLen),
          vectors \in BoundedSeq(InsVecs, MaxLen),
          metadata \in Metadatas,
          bs \in BatchSizes, l \in Languages :
          InsertMany(c, texts, vectors, metadata, record_ids, bs, l)
    \/ \E c \in Names : ResetVectorIndex(c)
    \/ \E c \in Names, q \in QueryTexts, v \in InsVecs, k \in 0..MaxTopK :
          SearchByVector(c, q, v, k, default_rrf_k)
    \/ \E c \in Names : GetCollectionInfo(c)
    \/ EndCall

Spec == Init /\ [][Next]_vars

\* ===================================================== the search on a table
\* a collection "c1" holding any table of at most MaxTable rows
Tables == BoundedSeq([text : Texts, vector : Vecs, chunk_id : {1},
                      language : {"english"}], MaxTable)

InitSearch ==
    /\ collections = {"c1"}
    /\ \E t \in Tables : rows = [c \in Names |-> IF c = "c1" THEN t ELSE <<>>]
    /\ indexes = [c \in Names |-> {}]
    /\ last = NoCall
    /\ sres = NoSearch
    /\ DataIdle

\* a search by a provider that was constructed with distance_method
HybridSearch(distance_method, c, query, vector, top_k, rrf_k) ==
    /\ sres = NoSearch
    /\ \E r \in search_by_vector(DB, c, query, vector, top_k, rrf_k) :
        /\ r.ret = "list"
        /\ sres' = [r.out EXCEPT
                       !.distance_method = distance_method,
                       !.ops = PgVectorDistanceMethod(distance_method)]
        /\ last' = [Called("search_by_vector", c, r.ret, "skipped", DB)
                       EXCEPT !.nres = Len(r.out.docs), !.top_k = top_k]
        /\ UNCHANGED <<collections, rows, indexes, dvars>>

\* the request ends and its result is dropped
EndSearch ==
    /\ sres # NoSearch
    /\ sres' = NoSearch
    /\ last' = NoCall
    /\ UNCHANGED <<collections, rows, indexes, dvars>>

NextSearch ==
    \/ \E q \in QueryTexts, v \in Vecs, k \in 0..MaxTopK, rk \in RrfKs :
          HybridSearch(VECTOR_DB_DISTANCE_METHOD, "c1", q, v, k, rk)
    \/ EndSearch

SpecSearch == InitSearch /\ [][NextSearch]_vars

\* ============================================ the search under each metric
\* providers constructed with either distance method, on the tables whose
\* rows have one text
InitMetric ==
    /\ collections = {"c1"}
    /\ \E t \in BoundedSeq([text : InsTexts, vector : Vecs, chunk_id : {1},
                            language : {"english"}], MaxTable) :
           rows = [c \in Names |-> IF c = "c1" THEN t ELSE <<>>]
    /\ indexes = [c \in Names |-> {}]
    /\ last = NoCall
    /\ sres = NoSearch
    /\ DataIdle

NextMetric ==
    \/ \E dm \in DistanceMethods, q \in QueryTexts, v \in Vecs,
          k \in 0..MaxTopK :
          HybridSearch(dm, "c1", q, v, k, default_rrf_k)
    \/ EndSearch

SpecMetric == InitMetric /\ [][NextMetric]_vars

\* ========================================================= upload requests
\* POST /upload/{project_id}: concurrent requests, each a sequence of steps
\* separated by the awaits of the handler.
SetReq(r, rec) == reqs' = [reqs EXCEPT ![r] = rec]

InitUpload ==
    /\ collections = {}
    /\ rows = [c \in Names |-> <<>>]
    /\ indexes = [c \in Names |-> {}]
    /\ last = NoCall
    /\ sres = NoSearch
    /\ DataIdle

\* get_project_by_id, the SELECT: the row is there, or create_project is
\* called next
UploadSelectProject(r, project_id, file) ==
    /\ reqs[r].pc = "idle"
    /\ SetReq(r, [reqs[r] EXCEPT
                    !.pc = IF project_id \in SeqRange(projects)
                           THEN "validate" ELSE "create",
                    !.project = project_id, !.file = file])
    /\ UNCHANGED <<svars, projects, dirs, files, assets, chunks, fname, chunk_seq,
                 xvars>>

\* get_project_by_id, the INSERT of create_project
UploadCreateProject(r) ==
    LET c == create_project(projects, reqs[r].project)
    IN  /\ reqs[r].pc = "create"
        /\ projects' = c.table
        /\ SetReq(r, IF c.raised THEN Raised(reqs[r])
                     ELSE [reqs[r] EXCEPT !.pc = "validate", !.wrote = TRUE])
        /\ UNCHANGED <<svars, dirs, files, assets, chunks, fname, chunk_seq,
                 xvars>>

\* validate_file, then generate_unique_file_path (get_project_files_dir makes
\* the directory of the project)
UploadValidate(r) ==
    LET v == validate_file(reqs[r].file)
    IN  /\ reqs[r].pc = "validate"
        /\ IF ~v.is_valid
           THEN /\ SetReq(r, JSONResponse(reqs[r], 400, "status", v.signal))
                /\ UNCHANGED dirs
           ELSE /\ \E path \in generate_unique_file_path(
                                  files, reqs[r].project,
                                  reqs[r].file.filename) :
                       SetReq(r, [reqs[r] EXCEPT
                                    !.pc = "write", !.path = path,
                                    !.wrote = @ \/ reqs[r].project \notin dirs])
                /\ dirs' = dirs \cup {reqs[r].project}
        /\ UNCHANGED <<svars, projects, files, assets, chunks, fname, chunk_seq,
                 xvars>>

\* aiofiles.open(file_path, "wb") and the streamed writes succeed
UploadWrite(r) ==
    /\ reqs[r].pc = "write"
    /\ files' = (reqs[r].path :> r) @@ files
    /\ SetReq(r, [reqs[r] EXCEPT !.pc = "asset", !.wrote = TRUE,
                     !.clobbered = reqs[r].path \in DOMAIN files])
    /\ UNCHANGED <<svars, projects, dirs, assets, chunks, fname, chunk_seq,
                 xvars>>

\* variant: the handler goes on to the Asset row after a failed write
UploadWriteFails_continue(r, created) ==
    /\ reqs[r].pc = "write"
    /\ files' = IF created THEN (reqs[r].path :> r) @@ files ELSE files
    /\ SetReq(r, [SignalResponse(reqs[r], 400, "FILE_UPLOAD_FAILED") EXCEPT
                     !.pc = "asset",
                     !.wrote = created,
                     !.clobbered = created /\ reqs[r].path \in DOMAIN files])
    /\ UNCHANGED <<svars, projects, dirs, assets, chunks, fname, chunk_seq,
                 xvars>>

\* the open or a write raises: file_upload_failed; the file was created (and
\* holds part of the bytes) or was not
UploadWriteFails(r, created) ==
    /\ reqs[r].pc = "write"
    /\ files' = IF created THEN (reqs[r].path :> r) @@ files ELSE files
    /\ SetReq(r, [SignalResponse(reqs[r], 400, "FILE_UPLOAD_FAILED") EXCEPT
                     !.wrote = created,
                     !.clobbered = created /\ reqs[r].path \in DOMAIN files])
    /\ UNCHANGED <<svars, projects, dirs, assets, chunks, fname, chunk_seq,
                 xvars>>

\* the Asset row is built and create_asset inserts it
UploadCreateAsset(r) ==
    LET asset == [asset_name |-> reqs[r].path.name,
                  asset_project_id |-> reqs[r].project, by |-> r]
        c == create_asset(assets, asset)
    IN  /\ reqs[r].pc = "asset"
        /\ assets' = c.table
        /\ SetReq(r, IF c.raised THEN Raised(reqs[r])
                     ELSE SignalResponse(reqs[r], 200, "FILE_UPLOAD_SUCCESS"))
        /\ UNCHANGED <<svars, projects, dirs, files, chunks, fname, chunk_seq,
                 xvars>>

NextUpload ==
    \/ \E r \in Requests, project_id \in ProjectIds, file \in UploadFiles :
          UploadSelectProject(r, project_id, file)
    \/ \E r \in Requests : UploadCreateProject(r)
    \/ \E r \in Requests : UploadValidate(r)
    \/ \E r \in Requests : UploadWrite(r)
    \/ \E r \in Requests, created \in BOOLEAN : UploadWriteFails(r, created)
    \/ \E r \in Requests : UploadCreateAsset(r)

SpecUpload == InitUpload /\ [][NextUpload]_vars

\* ====================================================== sanitizing a name
MaxName == 3       \* longest file name that is sanitized

InitSanitize ==
    /\ collections = {}
    /\ rows = [c \in Names |-> <<>>]
    /\ indexes = [c \in Names |-> {}]
    /\ last = NoCall
    /\ sres = NoSearch
    /\ projects = <<>>
    /\ dirs = {}
    /\ files = <<>>
    /\ assets = <<>>
    /\ chunks = <<>>
    /\ reqs = [r \in Requests |-> NoReq]
    /\ \E x \in BoundedSeq(Chars, MaxName) : fname = [orig |-> x, out |-> <<>>]
    /\ chunk_seq = 0
    /\ page = NoPage
    /\ rr = NoRerank

\* get_clean_file_name applied to the name, then to its own result
Sanitize ==
    /\ Len(fname.out) < 2
    /\ fname' = [fname EXCEPT !.out =
                    Append(@, get_clean_file_name(
                                  IF @ = <<>> THEN fname.orig ELSE @[Len(@)]))]
    /\ UNCHANGED <<svars, projects, dirs, files, assets, chunks, reqs,
                 chunk_seq, xvars>>

NextSanitize == Sanitize

SpecSanitize == InitSanitize /\ [][NextSanitize]_vars

\* ===================================================== processing requests
\* POST /upload/process/{project_id}: concurrent requests over the assets of
\* project 1; the collection of a project is re-created by create_collection.
MaxChunks == 2     \* most chunks process_file_content makes of a file

\* file_id of the request: absent, or a name
FileIds == {[none |-> TRUE, name |-> <<>>]} \cup
           {[none |-> FALSE, name |-> n] :
               n \in {<<"s1", "_", "a">>, <<"s9", "_", "a">>}}
\* what reading and chunking a file gives: no content, or n chunks
FileOutcomes == {[content |-> FALSE, n |-> 0]} \cup
                {[content |-> TRUE, n |-> k] : k \in 0..MaxChunks}
\* a processing request: todo: asset_id of the files still to process;
\*   no_files, no_records: the counters of the handler; file_chunks: the
\*   chunks of the file processed last; total: chunk rows the request has
\*   inserted; dropped, deleted: the reset step dropped the collection,
\*   deleted that many chunk rows
NoProc == [pc |-> "idle", project |-> 0,
           file_id |-> [none |-> TRUE, name |-> <<>>], do_reset |-> 0,
           todo |-> <<>>, no_files |-> 0, no_records |-> 0,
           signal |-> NoneVal, key |-> NoneVal, status_code |-> 0,
           file_chunks |-> <<>>, total |-> 0,
           dropped |-> FALSE, deleted |-> 0]

InitProcess ==
    /\ \E cs \in SUBSET {create_collection_name(1)} : collections = cs
    /\ rows = [c \in Names |-> <<>>]
    /\ indexes = [c \in Names |-> {}]
    /\ last = NoCall
    /\ sres = NoSearch
    /\ projects = <<1>>
    /\ dirs = {1}
    /\ files = [path \in {file_path(1, sfx, <<"a">>) : sfx \in Suffixes}
                   |-> "upload"]
    /\ assets = <<[asset_name |-> <<"s1", "_", "a">>, asset_project_id |-> 1,
                   by |-> "upload"],
                  [asset_name |-> <<"s2", "_", "a">>, asset_project_id |-> 1,
                   by |-> "upload"]>>
    /\ \E old \in 0..1 :
           LET ins == insert_many_chunks(
                          <<>>, 0, chunk_records(FileChunks(old), 1, 1))
           IN  chunks = ins.table /\ chunk_seq = ins.seq
    /\ reqs = [r \in Requests |-> NoProc]
    /\ fname = NoName
    /\ page = NoPage
    /\ rr = NoRerank

\* get_project_by_id, the SELECT
ProcessSelectProject(r, project_id, file_id, do_reset) ==
    /\ reqs[r].pc = "idle"
    /\ SetReq(r, [reqs[r] EXCEPT
                    !.pc = IF project_id \in SeqRange(projects)
                           THEN "collect" ELSE "create",
                    !.project = project_id, !.file_id = file_id,
                    !.do_reset = do_reset])
    /\ UNCHANGED <<svars, projects, dirs, files, assets, chunks, fname, chunk_seq,
                 xvars>>

\* get_project_by_id, the INSERT of create_project
ProcessCreateProject(r) ==
    LET c == create_project(projects, reqs[r].project)
    IN  /\ reqs[r].pc = "create"
        /\ projects' = c.table
        /\ SetReq(r, IF c.raised THEN Raised(reqs[r])
                     ELSE [reqs[r] EXCEPT !.pc = "collect"])
        /\ UNCHANGED <<svars, dirs, files, assets, chunks, fname, chunk_seq,
                 xvars>>

\* project_files_ids: the asset of the file_id, or all assets of the project
ProcessCollect(r) ==
    LET g == get_asset_record(assets, reqs[r].project, reqs[r].file_id.name)
        ids == IF reqs[r].file_id.none
               THEN get_all_project_assets(assets, reqs[r].project)
               ELSE g.ids
        rec == IF ~reqs[r].file_id.none /\ g.raised
               THEN Raised(reqs[r])
               ELSE IF ~reqs[r].file_id.none /\ ids = {}
               THEN SignalResponse(reqs[r], 400, "FILE_NOT_FOUND")
               ELSE IF ids = {}
               THEN SignalResponse(reqs[r], 400, "NO_FILES_TO_PROCESS")
               ELSE [reqs[r] EXCEPT
                        !.pc = IF reqs[r].do_reset = 1 THEN "reset"
                               ELSE "loop",
                        !.todo = SortedIds(ids)]
    IN  /\ reqs[r].pc = "collect"
        /\ SetReq(r, rec)
        /\ UNCHANGED <<svars, projects, dirs, files, assets, chunks, fname, chunk_seq,
                 xvars>>

\* do_reset == 1: delete_collection of the collection of the project
ProcessResetCollection(r) ==
    LET c == create_collection_name(reqs[r].project)
    IN  /\ reqs[r].pc = "reset"
        /\ SetDB(delete_collection(DB, c))
        /\ SetReq(r, [reqs[r] EXCEPT !.pc = "reset_chunks",
                                     !.dropped = c \in collections])
        /\ UNCHANGED <<last, sres, projects, dirs, files, assets, chunks,
                       fname, chunk_seq, xvars>>

\* do_reset == 1: delete_chunks_by_project_id
ProcessResetChunks(r) ==
    LET d == delete_chunks_by_project_id(chunks, reqs[r].project)
    IN  /\ reqs[r].pc = "reset_chunks"
        /\ chunks' = d.table
        /\ SetReq(r, [reqs[r] EXCEPT !.pc = "loop", !.deleted = d.rowcount])
        /\ UNCHANGED <<svars, projects, dirs, files, assets, fname, chunk_seq,
                       xvars>>

\* one turn of the loop over project_files_ids
ProcessFile(r, outcome) ==
    LET asset_id == Head(reqs[r].todo)
        file_chunks == FileChunks(outcome.n)
        ins == insert_many_chunks(
                   chunks, chunk_seq,
                   chunk_records(file_chunks, asset_id, reqs[r].project))
    IN  /\ reqs[r].pc = "loop"
        /\ reqs[r].todo # <<>>
        /\ IF ~outcome.content
           THEN /\ SetReq(r, SignalResponse(reqs[r], 400,
                                             "FILE_READ_FAILED"))
                /\ UNCHANGED <<chunks, chunk_seq>>
           ELSE IF Len(file_chunks) = 0
           THEN /\ SetReq(r, SignalResponse(reqs[r], 400,
                                             "PROCESSING_FAILED"))
                /\ UNCHANGED <<chunks, chunk_seq>>
           ELSE /\ chunks' = ins.table
                /\ chunk_seq' = ins.seq
                /\ SetReq(r, [reqs[r] EXCEPT
                                !.todo = Tail(@),
                                !.no_records = ins.ret,
                                !.no_files = @ + 1,
                                !.file_chunks = file_chunks,
                                !.total = @ + Len(file_chunks)])
        /\ UNCHANGED <<svars, projects, dirs, files, assets, fname, xvars>>

\* the loop is over: file_processing_completed with files_processed =
\* no_files and records_created = no_records
ProcessReturn(r) ==
    /\ reqs[r].pc = "loop"
    /\ reqs[r].todo = <<>>
    /\ SetReq(r, SignalResponse(reqs[r], 200, "FILE_PROCESSING_COMPLETED"))
    /\ UNCHANGED <<svars, projects, dirs, files, assets, chunks, fname, chunk_seq,
                 xvars>>

NextProcess ==
    \/ \E r \in Requests, project_id \in ProjectIds, file_id \in FileIds,
          do_reset \in {0, 1} :
          ProcessSelectProject(r, project_id, file_id, do_reset)
    \/ \E r \in Requests : ProcessCreateProject(r)
    \/ \E r \in Requests : ProcessCollect(r)
    \/ \E r \in Requests : ProcessResetCollection(r)
    \/ \E r \in Requests : ProcessResetChunks(r)
    \/ \E r \in Requests, outcome \in FileOutcomes : ProcessFile(r, outcome)
    \/ \E r \in Requests : ProcessReturn(r)
    \/ \E b \in BOOLEAN :
          CreateCollection(create_collection_name(1), EMBEDDING_MODEL_SIZE, b)
    \/ EndCall

SpecProcess == InitProcess /\ [][NextProcess]_vars

\* ==================================================================== rerank
InitRerank ==
    /\ collections = {}
    /\ rows = [c \in Names |-> <<>>]
    /\ indexes = [c \in Names |-> {}]
    /\ last = NoCall
    /\ sres = NoSearch
    /\ DataIdle

Rerank(documents, top_n, response) ==
    LET r == rerank(documents, top_n, response)
    IN  /\ rr = NoRerank
        /\ rr' = [op |-> "rerank", documents |-> documents, top_n |-> top_n,
                  response |-> response, out |-> r.out, path |-> r.path,
                  parsed |-> r.parsed]
        /\ UNCHANGED <<svars, projects, dirs, files, assets, chunks, reqs,
                       fname, chunk_seq, page>>

NextRerank ==
    \E documents \in Documents, top_n \in TopNs, response \in Responses :
        Rerank(documents, top_n, response)

SpecRerank == InitRerank /\ [][NextRerank]_vars

\* ============================================================ push requests
\* POST /nlp/push/{project_id} (routes/nlp.py, index_project): concurrent
\* requests, each a sequence of steps separated by the awaits of the
\* handler, next to processing requests on the same tables.

\* NLPController.index_into_vector_db(project, chunks, chunks_ids): the
\* collection of the project is created if it is missing (no reset), the
\* texts are embedded, insert_many is called with the texts, the vectors and
\* the chunk ids; success iff all batches were inserted
index_into_vector_db(db, project_id, records, chunks_ids, language) ==
    LET c == create_collection_name(project_id)
        cc == create_collection(db, c, EMBEDDING_MODEL_SIZE, FALSE)
        texts == [k \in DOMAIN records |-> records[k].chunk_text]
        vectors == [k \in DOMAIN texts |-> <<1, 0>>]
        ins == insert_many(cc.db, c, texts, vectors,
                           [none |-> TRUE, items |-> <<>>], chunks_ids,
                           default_batch_size, language)
    IN  IF cc.ret = "raised" THEN [ret |-> FALSE, db |-> cc.db]
        ELSE [ret |-> (ins.ret = "True"), db |-> ins.db]

\* a push request: page_size, page_no, inserted_count, idx: the locals of
\*   the handler; chunks: the page it holds; indexed_chunks: the count it
\*   reports; inserted: rows its inserts added to the collection; pages:
\*   pages whose insertion succeeded; others: the requests that had ended
\*   when it started; solo: no other request ran between its start and now;
\*   clean: when it started the collection held one record for each chunk
NoPush == [pc |-> "push_idle", project |-> 0, do_reset |-> FALSE,
           page_size |-> 0, page_no |-> 1, inserted_count |-> 0, idx |-> 0,
           chunks |-> <<>>, signal |-> NoneVal, key |-> NoneVal,
           status_code |-> 0, indexed_chunks |-> 0, inserted |-> 0,
           pages |-> 0, others |-> {}, solo |-> TRUE, clean |-> FALSE]

\* every chunk of the project has records records in its collection, and
\* the collection has no other record
RecordsPerChunk(project_id, records) ==
    LET c == create_collection_name(project_id)
        ids == {chunks[i].chunk_id : i \in DeletedRows(chunks, project_id)}
    IN  /\ c \in collections
        /\ \A j \in DOMAIN rows[c] : rows[c][j].chunk_id \in ids
        /\ \A id \in ids :
               Cardinality({j \in DOMAIN rows[c] : rows[c][j].chunk_id = id})
                   = records
\* a step of request r; solo: no request but r and those that had ended
\* when r started has left its idle state
Step(r, rec) ==
    SetReq(r, [rec EXCEPT !.solo =
                  /\ @
                  /\ \A r2 \in Requests \ {r} :
                         \/ r2 \in rec.others
                         \/ reqs[r2].pc \in {"idle", "push_idle"}])

InitPush ==
    /\ collections = {}
    /\ rows = [c \in Names |-> <<>>]
    /\ indexes = [c \in Names |-> {}]
    /\ last = NoCall
    /\ sres = NoSearch
    /\ projects = <<1>>
    /\ dirs = {1}
    /\ files = [path \in {file_path(1, "s1", <<"a">>)} |-> "upload"]
    /\ assets = <<[asset_name |-> <<"s1", "_", "a">>, asset_project_id |-> 1,
                   by |-> "upload"]>>
    /\ \E old \in 0..MaxChunks :
           LET ins == insert_many_chunks(
                          <<>>, 0, chunk_records(FileChunks(old), 1, 1))
           IN  chunks = ins.table /\ chunk_seq = ins.seq
    /\ \E second \in {NoPush, NoProc} :
           reqs = [r \in Requests |-> IF r = "r1" THEN NoPush ELSE second]
    /\ fname = NoName
    /\ page = NoPage
    /\ rr = NoRerank

\* get_project_by_id, the SELECT
PushSelectProject(r, project_id, do_reset, page_size) ==
    LET others == {r2 \in Requests \ {r} : reqs[r2].pc = "done"}
    IN  /\ reqs[r].pc = "push_idle"
        /\ Step(r, [reqs[r] EXCEPT
                       !.pc = IF project_id \in SeqRange(projects)
                              THEN "push_collection" ELSE "push_create",
                       !.project = project_id, !.do_reset = do_reset,
                       !.page_size = page_size, !.others = others,
                       !.clean = RecordsPerChunk(project_id, 1)])
        /\ UNCHANGED <<svars, projects, dirs, files, assets, chunks, fname,
                       chunk_seq, xvars>>

\* get_project_by_id, the INSERT of create_project
PushCreateProject(r) ==
    LET c == create_project(projects, reqs[r].project)
    IN  /\ reqs[r].pc = "push_create"
        /\ projects' = c.table
        /\ Step(r, IF c.raised THEN Raised(reqs[r])
                   ELSE [reqs[r] EXCEPT !.pc = "push_collection"])
        /\ UNCHANGED <<svars, dirs, files, assets, chunks, fname, chunk_seq,
                       xvars>>

\* variant: the collection is never reset
PushCreateCollection_noreset(r) ==
    LET c == create_collection_name(reqs[r].project)
        cc == create_collection(DB, c, EMBEDDING_MODEL_SIZE, FALSE)
    IN  /\ reqs[r].pc = "push_collection"
        /\ SetDB(cc.db)
        /\ Step(r, IF cc.ret = "raised" THEN Raised(reqs[r])
                   ELSE [reqs[r] EXCEPT !.pc = "push_fetch"])
        /\ UNCHANGED <<last, sres, projects, dirs, files, assets, chunks,
                       fname, chunk_seq, xvars>>

\* create_collection(collection_name, embedding_size, do_reset)
PushCreateCollection(r) ==
    LET c == create_collection_name(reqs[r].project)
        cc == create_collection(DB, c, EMBEDDING_MODEL_SIZE, reqs[r].do_reset)
    IN  /\ reqs[r].pc = "push_collection"
        /\ SetDB(cc.db)
        /\ Step(r, IF cc.ret = "raised" THEN Raised(reqs[r])
                   ELSE [reqs[r] EXCEPT !.pc = "push_fetch"])
        /\ UNCHANGED <<last, sres, projects, dirs, files, assets, chunks,
                       fname, chunk_seq, xvars>>

\* the head of the loop: get_poject_chunks of page page_no; an empty page
\* ends the request with indexing_completed
PushFetch(r) ==
    LET records == get_poject_chunks(chunks, reqs[r].project,
                                     reqs[r].page_no, reqs[r].page_size)
    IN  /\ reqs[r].pc = "push_fetch"
        /\ Step(r, IF Len(records) = 0
                   THEN [SignalResponse(reqs[r], 200, "INDEXING_COMPLETED")
                            EXCEPT !.indexed_chunks = reqs[r].inserted_count]
                   ELSE [reqs[r] EXCEPT
                            !.pc = "push_index",
                            !.page_no = @ + 1,
                            !.chunks = records,
                            !.inserted_count = @ + 1,
                            !.idx = @ + Len(records)])
        /\ UNCHANGED <<svars, projects, dirs, files, assets, chunks, fname,
                       chunk_seq, xvars>>

\* variant: the loop goes on after a page that was not inserted
PushIndex_continue(r, language) ==
    LET c == create_collection_name(reqs[r].project)
        x == index_into_vector_db(DB, reqs[r].project, reqs[r].chunks,
                                  chunk_ids_of(reqs[r].chunks), language)
        added == IF c \in collections
                 THEN Len(x.db.rows[c]) - Len(rows[c])
                 ELSE Len(x.db.rows[c])
    IN  /\ reqs[r].pc = "push_index"
        /\ SetDB(x.db)
        /\ Step(r, [reqs[r] EXCEPT
                       !.pc = "push_fetch",
                       !.inserted = @ + added,
                       !.pages = @ + 1,
                       !.inserted_count = @ + Len(reqs[r].chunks)])
        /\ UNCHANGED <<last, sres, projects, dirs, files, assets, chunks,
                       fname, chunk_seq, xvars>>

\* the body of the loop: index_into_vector_db of the page, indexing_failed
\* when it is not inserted
PushIndex(r, language) ==
    LET c == create_collection_name(reqs[r].project)
        x == index_into_vector_db(DB, reqs[r].project, reqs[r].chunks,
                                  chunk_ids_of(reqs[r].chunks), language)
        added == IF c \in collections
                 THEN Len(x.db.rows[c]) - Len(rows[c])
                 ELSE Len(x.db.rows[c])
    IN  /\ reqs[r].pc = "push_index"
        /\ SetDB(x.db)
        /\ Step(r, IF ~x.ret
                   THEN [SignalResponse(reqs[r], 500, "INDEXING_FAILED")
                            EXCEPT !.inserted = @ + added]
                   ELSE [reqs[r] EXCEPT
                            !.pc = "push_fetch",
                            !.inserted = @ + added,
                            !.pages = @ + 1,
                            !.inserted_count = @ + Len(reqs[r].chunks)])
        /\ UNCHANGED <<last, sres, projects, dirs, files, assets, chunks,
                       fname, chunk_seq, xvars>>

NextPush ==
    \/ \E r \in Requests, project_id \in ProjectIds, do_reset \in BOOLEAN,
          page_size \in {1, default_page_size} :
          PushSelectProject(r, project_id, do_reset, page_size)
    \/ \E r \in Requests : PushCreateProject(r)
    \/ \E r \in Requests : PushCreateCollection(r)
    \/ \E r \in Requests : PushFetch(r)
    \/ \E r \in Requests, language \in Languages : PushIndex(r, language)
    \/ \E r \in Requests, project_id \in ProjectIds, do_reset \in {0, 1} :
          ProcessSelectProject(r, project_id, [none |-> TRUE, name |-> <<>>],
                               do_reset)
    \/ \E r \in Requests : ProcessCreateProject(r)
    \/ \E r \in Requests : ProcessCollect(r)
    \/ \E r \in Requests : ProcessResetCollection(r)
    \/ \E r \in Requests : ProcessResetChunks(r)
    \/ \E r \in Requests, outcome \in {[content |-> TRUE, n |-> 1]} :
          ProcessFile(r, outcome)
    \/ \E r \in Requests : ProcessReturn(r)

SpecPush == InitPush /\ [][NextPush]_vars

\* ============================================== paging through the chunks
MaxHeap == 3       \* most rows of table DataChunk in a walk over its pages

\* Table DataChunk with the chunk ids 1..n. PostgreSQL stores a new row in
\* space that deleted rows left, so the order of the heap is any order of
\* the ids.
InitPages ==
    /\ collections = {}
    /\ rows = [c \in Names |-> <<>>]
    /\ indexes = [c \in Names |-> {}]
    /\ last = NoCall
    /\ sres = NoSearch
    /\ projects = <<1, 2>>
    /\ dirs = {}
    /\ files = <<>>
    /\ assets = <<>>
    /\ \E n \in 0..MaxHeap :
           /\ chunk_seq = n
           /\ \E heap \in Permutations(1..n), owner \in [1..n -> ProjectIds] :
                  chunks = [i \in 1..n |->
                               [chunk_id |-> heap[i], chunk_text |-> 1,
                                chunk_asset_id |-> 1,
                                chunk_project_id |-> owner[i],
                                chunk_order |-> 1]]
    /\ reqs = [r \in Requests |-> NoReq]
    /\ fname = NoName
    /\ page = NoPage
    /\ rr = NoRerank

\* page_no = 1, 2, ... until a page is empty
ListChunks(project_id, page_size) ==
    LET page_no == page.page_no + 1
        records == get_poject_chunks(chunks, project_id, page_no, page_size)
    IN  /\ ~page.done
        /\ page.op = "none" \/ (page.project = project_id
                                 /\ page.page_size = page_size)
        /\ page' = [op |-> "list", project |-> project_id,
                    page_size |-> page_size, page_no |-> page_no,
                    out |-> chunk_ids_of(records),
                    seen |-> page.seen \o chunk_ids_of(records),
                    done |-> (records = <<>>)]
        /\ UNCHANGED <<svars, projects, dirs, files, assets, chunks, reqs,
                       fname, chunk_seq, rr>>

NextPages ==
    \E project_id \in ProjectIds, page_size \in PageSizes :
        ListChunks(project_id, page_size)

SpecPages == InitPages /\ [][NextPages]_vars

\* ================================================================ properties
IsInsert == last.op \in {"insert_one", "insert_many"}
BothIndexes == {"embed", "fts"}

\* C1: for every insert_many call, the number of rows the call adds equals
\* len(vectors) iff the call returns True; a call that returns False or
\* raises adds no rows, and a call that adds len(vectors) (> 0) rows returns
\* True.
C1_RowsIffSuccess ==
    last.op = "insert_many" =>
        /\ (last.ret = "True" => last.added = last.nv)
        /\ (last.ret \in {"False", "raised"} => last.added = 0)
        /\ (last.added = last.nv /\ last.nv > 0 => last.ret = "True")

\* C2: insert_many reports failure and inserts no row whenever its
\* precondition fails (the three lengths are not all equal, or the collection
\* does not exist).
C2_PreconditionFailureInsertsNothing ==
    (last.op = "insert_many" /\ ~last.pre) =>
        (last.ret # "True" /\ last.added = 0)

C4_IndexesAtThreshold ==
    \A c \in collections :
        Len(rows[c]) >= index_threshold => indexes[c] = BothIndexes

\* C5: a collection with fewer than T rows has neither index, and whether
\* create_collection goes on to build the indexes is decided by the row
\* count alone (count >= T), whatever the embedding dimension.
C5_ThresholdAloneDecides ==
    /\ \A c \in Names : Len(rows[c]) < index_threshold => indexes[c] = {}
    /\ last.op = "create_collection" =>
           ((last.idx \in {"failed", "built"})
                <=> (Len(rows[last.name]) >= index_threshold))

\* C6: a failure of index creation is not fatal: an insert whose rows were
\* inserted still reports success when the index creation after it fails, and
\* a search on a collection that has rows returns results.
C6_IndexFailureNonFatal ==
    /\ (IsInsert /\ last.idx = "failed" /\ last.added > 0) => last.ret = "True"
    /\ (last.op = "search_by_vector" /\ last.existed /\ last.top_k > 0
            /\ Len(rows[last.name]) > 0)
           => (last.ret = "list" /\ last.nres > 0)

\* C7: a search returns at most top_k documents, in non-increasing order of
\* score (so top_k = 0 gives the empty list).
C7_AtMostTopKDescending ==
    /\ Len(sres.docs) <= sres.top_k
    /\ \A i, j \in DOMAIN sres.docs :
           i < j => sres.docs[j].score.num * sres.docs[i].score.den
                       <= sres.docs[i].score.num * sres.docs[j].score.den
C7_Witness ==
    /\ sres.top_k = 2 /\ sres.n > 2 /\ Len(sres.docs) = 2
    /\ sres.docs[2].score.num * sres.docs[1].score.den
          < sres.docs[1].score.num * sres.docs[2].score.den

\* C8: every returned row's score is 1/(rrf_k + r_v) if the row has dense
\* rank r_v (else 0) plus 1/(rrf_k + r_k) if it has lexical rank r_k (else
\* 0); the ranks are within 1..top_k; the candidates are the rows of either
\* ranking, so the result has min(top_k, number of candidates) distinct rows.
C8_ExpectedNum(id) ==
    LET k == sres.rrf_k
        inV == id \in DOMAIN sres.vres
        inK == id \in DOMAIN sres.kres
    IN  CASE inV /\ inK -> (k + sres.kres[id]) + (k + sres.vres[id])
          [] inV /\ ~inK -> 1
          [] ~inV /\ inK -> 1
          [] OTHER -> 0
C8_ExpectedDen(id) ==
    LET k == sres.rrf_k
        inV == id \in DOMAIN sres.vres
        inK == id \in DOMAIN sres.kres
    IN  CASE inV /\ inK -> (k + sres.kres[id]) * (k + sres.vres[id])
          [] inV /\ ~inK -> k + sres.vres[id]
          [] ~inV /\ inK -> k + sres.kres[id]
          [] OTHER -> 1
C8_Candidates == (DOMAIN sres.vres) \cup (DOMAIN sres.kres)
C8_ScoreIsRRF ==
    /\ \A j \in DOMAIN sres.docs :
           LET doc == sres.docs[j]
           IN  /\ doc.id \in C8_Candidates
               /\ doc.score.num * C8_ExpectedDen(doc.id)
                     = C8_ExpectedNum(doc.id) * doc.score.den
    /\ \A i, j \in DOMAIN sres.docs : i # j => sres.docs[i].id # sres.docs[j].id
    /\ Len(sres.docs) = Min(sres.top_k, Cardinality(C8_Candidates))
    /\ \A i \in DOMAIN sres.vres : sres.vres[i] \in 1..sres.top_k
    /\ \A i \in DOMAIN sres.kres : sres.kres[i] \in 1..sres.top_k
C8_Witness ==
    /\ Len(sres.docs) = 2
    /\ sres.docs[1].id \in (DOMAIN sres.kres) \cap (DOMAIN sres.vres)
    /\ sres.docs[2].id \in (DOMAIN sres.vres) \ (DOMAIN sres.kres)
    /\ sres.rrf_k = default_rrf_k

\* C9: with rrf_k > 0, if rows a and b are both in the dense and in the
\* lexical ranking and a's rank is smaller than b's in both, then a's fused
\* score is strictly higher than b's and a comes before b in the result.
C9_Position(id) ==
    IF \E j \in DOMAIN sres.docs : sres.docs[j].id = id
    THEN CHOOSE j \in DOMAIN sres.docs : sres.docs[j].id = id
    ELSE 0
C9_Both == (DOMAIN sres.vres) \cap (DOMAIN sres.kres)
C9_Better(a, b) ==
    /\ a \in C9_Both /\ b \in C9_Both
    /\ sres.vres[a] < sres.vres[b]
    /\ sres.kres[a] < sres.kres[b]
C9_RRFMonotone ==
    sres.rrf_k > 0 =>
        \A a, b \in C9_Both :
            C9_Better(a, b) =>
                /\ sres.score[b].num * sres.score[a].den
                      < sres.score[a].num * sres.score[b].den
                /\ C9_Position(b) > 0 =>
                       (C9_Position(a) > 0 /\ C9_Position(a) < C9_Position(b))
C9_Witness ==
    \E a, b \in C9_Both :
        /\ C9_Better(a, b)
        /\ C9_Position(a) > 0 /\ C9_Position(a) < C9_Position(b)
        /\ sres.n > 2

\* C10: create_collection(name, D, reset=true) leaves the collection existing
\* and empty; with reset=false an existing collection and its rows are left
\* as they were.
C10_ResetEmptiesElseKeeps ==
    [][\A c \in Names :
          (last'.op = "create_collection" /\ last'.name = c) =>
              /\ last'.reset => (c \in collections' /\ rows'[c] = <<>>)
              /\ (~last'.reset /\ c \in collections) =>
                     (c \in collections' /\ rows'[c] = rows[c])]_vars
C10_Witness ==
    /\ last.op = "create_collection" /\ last.reset
    /\ last.existed /\ last.before > 0
    /\ last.name \in collections /\ rows[last.name] = <<>>

\* C11: get_collection_info(name) returns None without raising when no
\* collection named name exists, and returns the table info with the exact
\* current record count when it exists.
C11_InfoOrNone ==
    last.op = "get_collection_info" =>
        /\ (~last.existed => last.ret = "None")
        /\ (last.existed => (last.ret = "dict"
                                /\ last.nres = Len(rows[last.name])))

\* C13: validate_file accepts a file iff its MIME type is allowed and its
\* size is at most FILE_MAX_SIZE * 1024 * 1024 bytes; a file over the size is
\* rejected with file_size_exceeded, a file of a disallowed type with
\* file_type_not_supported.
Validated(r) == reqs[r].pc \in {"write", "asset"} \/ reqs[r].path # NoPath
Rejected(r) ==
    /\ reqs[r].pc = "done"
    /\ reqs[r].signal \in {"file_type_not_supported", "file_size_exceeded"}
C13_AcceptIffTypeAndSize ==
    \A r \in Requests :
        LET f == reqs[r].file
            type_ok == f.content_type \in {"text/plain", "application/pdf"}
            size_ok == f.size <= 1048576 * FILE_MAX_SIZE
        IN  /\ Validated(r) => (type_ok /\ size_ok)
            /\ Rejected(r) => ~(type_ok /\ size_ok)
            /\ (Rejected(r) /\ ~type_ok)
                   => reqs[r].signal = "file_type_not_supported"
            /\ (Rejected(r) /\ type_ok)
                   => reqs[r].signal = "file_size_exceeded"
C13_Witness ==
    \E r1, r2 \in Requests :
        /\ Validated(r1) /\ reqs[r1].file.size = 1048576 * FILE_MAX_SIZE
        /\ Rejected(r2) /\ reqs[r2].file.size = 1048576 * FILE_MAX_SIZE + 1
        /\ reqs[r2].signal = "file_size_exceeded"

\* C14: an upload rejected by validation has no persistence side effect: it
\* changed no row of Project, Asset or DataChunk, and no file or directory.
C14_RejectedUploadWritesNothing ==
    \A r \in Requests : Rejected(r) => ~reqs[r].wrote

\* C15: sanitizing is idempotent: get_clean_file_name applied to its own
\* result gives that result.
C15_SanitizeIdempotent ==
    Len(fname.out) = 2 => fname.out[2] = fname.out[1]
C15_Witness ==
    /\ Len(fname.out) = 2
    /\ fname.out[1] # fname.orig
    /\ fname.out[1] # <<>>
    /\ \E i \in DOMAIN fname.orig : fname.orig[i] = "-"
    /\ Head(fname.orig) = " "

\* C16: no upload overwrites a file stored by another upload: a request
\* never opens for writing a file that is on disk, and no two requests,
\* in flight or completed, hold the same allocated path.
C16_NoCrossRequestOverwrite ==
    \A r \in Requests :
        /\ ~reqs[r].clobbered
        /\ \A r2 \in Requests \ {r} :
               reqs[r].path # NoPath => reqs[r2].path # reqs[r].path

\* C17: get-or-create of a project is atomic: every call of
\* get_project_by_id(k) returns the project without error, and exactly one
\* Project row with id k exists afterwards.
RowsOf(k) == {i \in DOMAIN projects : projects[i] = k}
GotProject(r) == reqs[r].pc \notin {"idle", "create"}
C17_GetOrCreateAtomic ==
    \A r \in Requests :
        GotProject(r) =>
            /\ reqs[r].signal # "raised" \/ reqs[r].path # NoPath
            /\ Cardinality(RowsOf(reqs[r].project)) = 1

C12_ResetSemantics ==
    [][/\ \A r \in Requests :
              /\ (reqs[r].pc = "reset" /\ reqs'[r].pc = "reset_chunks")
                     => create_collection_name(reqs[r].project)
                            \notin collections'
              /\ (reqs[r].pc = "reset_chunks" /\ reqs'[r].pc = "loop")
                     => get_total_chunks_count(chunks', reqs[r].project) = 0
       /\ \A c \in Names :
              (c \notin collections /\ c \in collections')
                  => (last = NoCall /\ last'.op = "create_collection"
                                    /\ last'.name = c)]_vars
C12_Witness ==
    \E r \in Requests :
        /\ reqs[r].pc = "loop" /\ reqs[r].do_reset = 1
        /\ reqs[r].dropped /\ reqs[r].deleted > 0
        /\ create_collection_name(reqs[r].project) \notin collections
        /\ get_total_chunks_count(chunks, reqs[r].project) = 0

\* C19: the DataChunk rows a processing request persists for one asset carry
\* chunk_order 1..n, n the number of chunks produced, in the order the chunks
\* were produced, without gap or duplicate.
C19_ChunkOrderDense ==
    [][\A r \in Requests :
          (reqs[r].pc = "loop" /\ reqs'[r].no_files = reqs[r].no_files + 1)
              => LET n == Len(reqs'[r].file_chunks)
                     new == SubSeq(chunks', Len(chunks) + 1, Len(chunks'))
                 IN  /\ n > 0
                     /\ Len(new) = n
                     /\ \A k \in 1..n :
                            /\ new[k].chunk_order = k
                            /\ new[k].chunk_text = reqs'[r].file_chunks[k]
                            /\ new[k].chunk_asset_id = Head(reqs[r].todo)]_vars
C19_Witness ==
    \E r \in Requests :
        /\ reqs[r].pc = "done" /\ reqs[r].no_files = 2
        /\ Len(reqs[r].file_chunks) = MaxChunks
        /\ Len(chunks) >= MaxChunks
        /\ chunks[Len(chunks)].chunk_order = MaxChunks

\* C20: a successful processing request reports files_processed = number of
\* assets it processed and records_created = number of DataChunk rows it
\* created over all of those assets.
C20_ReportCounts ==
    \A r \in Requests :
        (reqs[r].pc = "done" /\ reqs[r].signal = "file_processing_completed")
            => /\ reqs[r].no_files =
                      (IF reqs[r].file_id.none
                       THEN Cardinality(get_all_project_assets(
                                            assets, reqs[r].project))
                       ELSE 1)
               /\ reqs[r].no_records = reqs[r].total

\* C25: every failure response of the endpoints carries an HTTP 4xx/5xx
\* status and, under the key "signal", one value of the ResponseStatus enum;
\* no failure path ends in an unhandled error or a signal outside the enum.
C25_SuccessSignals ==
    {"file_upload_success", "file_processing_completed", "indexing_completed"}
C25_FailuresCarrySignal ==
    \A r \in Requests :
        (reqs[r].pc = "done" /\ reqs[r].signal \notin C25_SuccessSignals)
            => /\ reqs[r].signal # "raised"
               /\ reqs[r].status_code \in 400..599
               /\ reqs[r].key = "signal"
               /\ \E m \in DOMAIN ResponseStatus :
                      ResponseStatus[m] = reqs[r].signal

\* C28: every record inserted through insert_one or insert_many stores the
\* requested language as the value of its language column (english when the
\* caller passes none), and the insert succeeds with the default language
\* argument: a call with well-formed arguments on an existing collection adds
\* its rows, and returns True unless the index step failed.
C28_DefaultLanguage ==
    IF last.op = "insert_one" THEN ENGLISH ELSE ENGLISH_value
C28_LanguageStored ==
    IsInsert =>
        /\ \A j \in (last.before + 1)..(last.before + last.added) :
               rows[last.name][j].language = last.lang.value
        /\ (last.lang = C28_DefaultLanguage /\ last.pre /\ last.md
                /\ last.nv > 0)
               => /\ last.added = last.nv
                  /\ \A j \in (last.before + 1)..(last.before + last.added) :
                         rows[last.name][j].language = "english"
                  /\ last.idx # "failed" => last.ret = "True"

\* C26: the dense candidates of a hybrid search are exactly the top_k rows
\* of the collection with the smallest distance to the query vector under
\* the configured distance metric, ranked 1..top_k in ascending distance; no
\* row outside those top_k nearest rows receives a dense rank.
\* a is nearer to q than b under the metric: cosine distance, or the inner
\* product (the larger product is the nearer row)
C26_Nearer(distance_method, a, b, q) ==
    IF distance_method = "cosine"
    THEN dot(a, q) * dot(a, q) * dot(b, b) > dot(b, q) * dot(b, q) * dot(a, a)
    ELSE dot(a, q) > dot(b, q)
C26_DenseTopK ==
    sres # NoSearch =>
        LET tbl == rows["c1"]
            V == DOMAIN sres.vres
            nearer(i, j) == C26_Nearer(sres.distance_method, tbl[i].vector,
                                       tbl[j].vector, sres.vector)
        IN  /\ Cardinality(V) = Min(sres.top_k, Len(tbl))
            /\ {sres.vres[i] : i \in V} = 1..Cardinality(V)
            /\ \A i \in V : \A j \in (DOMAIN tbl) \ V : ~nearer(j, i)
            /\ \A i, j \in V : nearer(i, j) => sres.vres[i] < sres.vres[j]

\* C24: whenever reranking fails (the LLM call raises, the response is not
\* JSON, parsing fails, or the parsed result is empty) rerank returns the
\* original candidates in their original order truncated to top_n, so a
\* non-empty candidate list never reranks to an empty list.
C24_Failed ==
    \/ rr.response.raises
    \/ rr.parsed \in {"error", "value"}
    \/ rr.parsed = "array" /\ rr.response.text.body.ids = <<>>
C24_FallbackOnFailure ==
    (rr.op = "rerank" /\ rr.documents # <<>>) =>
        /\ C24_Failed =>
               rr.out = SubSeq(rr.documents, 1,
                               Min(rr.top_n, Len(rr.documents)))
        /\ rr.out # <<>>

\* C27: when the response parses as a JSON array of IDs, rerank returns only
\* candidates addressed by in-range IDs (0 <= id < len(documents)), in the
\* order the IDs were given; an out-of-range ID (negative or >=
\* len(documents)) selects no document, and the result has at most top_n
\* entries.
C27_InRange(id) == 0 <= id /\ id < Len(rr.documents)
C27_Selected ==
    LET ids == SelectSeq(rr.response.text.body.ids, C27_InRange)
    IN  [k \in DOMAIN ids |-> rr.documents[ids[k] + 1]]
C27_OnlyInRangeIds ==
    (rr.op = "rerank" /\ rr.parsed = "array" /\ C27_Selected # <<>>) =>
        /\ Len(rr.out) <= rr.top_n
        /\ Len(rr.out) = Min(rr.top_n, Len(C27_Selected))
        /\ rr.out = SubSeq(C27_Selected, 1, Len(rr.out))

\* C23: list_chunks(project_id, page_no, page_size) returns the chunks at
\* positions (page_no-1)*page_size+1 .. page_no*page_size of the project's
\* chunks sorted by chunk id ascending, so that with no concurrent writes
\* iterating page_no = 1, 2, ... until an empty page yields every chunk of
\* the project exactly once.
C23_SortedChunkIds ==
    SortedIds({chunks[i].chunk_id : i \in DeletedRows(chunks, page.project)})
C23_PagesSortedById ==
    page.op = "list" =>
        LET ids == C23_SortedChunkIds
            first == (page.page_no - 1) * page.page_size + 1
            last_ == Min(page.page_no * page.page_size, Len(ids))
        IN  /\ page.done =>
                   /\ Len(page.seen) = Len(ids)
                   /\ \A k \in DOMAIN ids :
                          \E j \in DOMAIN page.seen : page.seen[j] = ids[k]
            /\ page.out = [k \in 1..(IF last_ < first THEN 0
                                       ELSE last_ - first + 1)
                               |-> ids[first + k - 1]]

\* ---------------------------------------------------------------- C21
IsPush(r) == "page_no" \in DOMAIN reqs[r]
C21_Completed(r) ==
    IsPush(r) /\ reqs[r].pc = "done" /\ reqs[r].signal = "indexing_completed"
\* C21: a push request that completes with indexing_completed reports
\* indexed_chunks equal to the number of chunks it inserted into the vector
\* store, for every number of pages
C21_IndexedChunksCount ==
    \A r \in Requests :
        C21_Completed(r) => reqs[r].indexed_chunks = reqs[r].inserted

\* ---------------------------------------------------------------- C22
C22_Added(r) ==
    LET c == create_collection_name(reqs[r].project)
    IN  Len(rows'[c]) - (IF c \in collections THEN Len(rows[c]) ELSE 0)
\* C22: within one push request the pages are handled in increasing page
\* order: page i + 1 is fetched only when the insertions of the pages 1..i
\* have succeeded, and a page whose insertion fails ends the request with
\* indexing_failed, after which it fetches and inserts nothing
C22_PagesInOrder ==
    [][\A r \in Requests :
          IsPush(r) =>
            /\ (reqs[r].pc = "push_fetch" /\ reqs'[r].pc = "push_index") =>
                   /\ reqs[r].page_no = reqs[r].pages + 1
                   /\ reqs'[r].page_no = reqs[r].page_no + 1
                   /\ reqs'[r].chunks =
                          get_poject_chunks(chunks, reqs[r].project,
                                            reqs[r].page_no,
                                            reqs[r].page_size)
            /\ (reqs[r].pc = "push_index" /\ reqs'[r].pc # "push_index") =>
                   IF reqs'[r].pc = "push_fetch"
                   THEN /\ C22_Added(r) = Len(reqs[r].chunks)
                        /\ reqs'[r].pages = reqs[r].pages + 1
                   ELSE /\ reqs'[r].pc = "done"
                        /\ reqs'[r].signal = "indexing_failed"
            /\ reqs[r].pc = "done" =>
                   /\ reqs'[r] = reqs[r]
                   /\ reqs[r].signal = "indexing_failed" =>
                          reqs[r].page_no = reqs[r].pages + 2]_vars
\* the second page of a request was not inserted after its first page was
C22_SecondPageFails ==
    \E r \in Requests :
        /\ IsPush(r)
        /\ reqs[r].pc = "done"
        /\ reqs[r].signal = "indexing_failed"
        /\ reqs[r].pages = 1
        /\ reqs[r].page_no = 3

\* ---------------------------------------------------------------- C29
C29_Alone(r) == C21_Completed(r) /\ reqs[r].solo
\* C29: after a push with do_reset = true that completes with
\* indexing_completed while no other request runs, the collection of the
\* project holds one record for each chunk of the project and no other
\* record; after a push with do_reset = false that starts from such a
\* collection it holds two records for each chunk
C29_OneRecordPerChunk ==
    [][\A r \in Requests :
          (IsPush(r) /\ reqs[r].pc # "done" /\ C29_Alone(r)') =>
              /\ reqs[r].do_reset => RecordsPerChunk(reqs[r].project, 1)'
              /\ (~reqs[r].do_reset /\ reqs[r].clean) =>
                     RecordsPerChunk(reqs[r].project, 2)']_vars
\* a push with reset has indexed the chunk of the project, and a
\* further push without reset has added a second record for it
C29_ResetThenPushAgain ==
    /\ \A r \in Requests : C29_Alone(r) /\ reqs[r].project = 1
    /\ reqs["r1"].do_reset /\ reqs["r1"].pages = 1
    /\ ~reqs["r2"].do_reset /\ reqs["r2"].clean
    /\ Cardinality(DeletedRows(chunks, 1)) = 1
    /\ RecordsPerChunk(1, 2)

\* ---------------------------------------------------------------- C30
\* C30: in every state reachable by interleavings of processing requests
\* (with do_reset) and push requests, every record of the collection of a
\* project has the chunk_id of an existing chunk of that project
C30_RecordsReferChunks ==
    \A project_id \in ProjectIds :
        LET c == create_collection_name(project_id)
        IN  c \in collections =>
                \A j \in DOMAIN rows[c] :
                    \E i \in DeletedRows(chunks, project_id) :
                        chunks[i].chunk_id = rows[c][j].chunk_id

====
